---- MODULE Spec2Model ----
(***************************************************************************)
(* A model of scalexm/hashmap: the differential reference counting of      *)
(* atomic_arc (Inner, Arc, AtomicArc) and the lock-free resizable map of   *)
(* hash_map (VirtualBucket, Buckets, Resizer, HashMap).                    *)
(*                                                                         *)
(* TLC's integers are 32 bits wide, so the two packed 64-bit words keep    *)
(* their layout with narrower fields: the cell word is PtrBits of          *)
(* compressed pointer below OuterBits of outer count (44 + 20 in the       *)
(* code), the counts word is CountBits of strong count below CountBits of  *)
(* basic count (32 + 32 in the code).  All arithmetic on them wraps at the *)
(* word's width, as the code's does.                                       *)
(***************************************************************************)
EXTENDS Integers, Sequences, FiniteSets, TLC

\* ------------------------------------------------------------------ bounds
PtrBits == 5
OuterBits == 4
CountBits == 6
MaxHeld == 2
MaxLoads == 2
MaxCalls == 6
\* hash_map: the slots of a virtual bucket (N = 7 in the code) and the source
\* buckets of a chunk (CHUNK_SIZE = 8 in the code), scaled so that a handful
\* of keys fills a bucket and a table of two buckets has two chunks
Slots == 2
ChunkBuckets == 1
MaxKey == 5
MaxLevel == 2
MaxMapOps == 3
MaxIns == 2
MaxDelta == 2

Threads == {1, 2}
\* The addresses the allocator hands out: 16-byte aligned, within the
\* pointer's range.  256 = 16 << 4, so a word that holds 16 where 16 >> 4 is
\* meant designates the Inner at 256.
Addrs == {16, 256}
Cells == {1, 2}

RECURSIVE Pow2(_)
Pow2(n) == IF n = 0 THEN 1 ELSE 2 * Pow2(n - 1)

\* ------------------------------------------------ atomic_arc/inner.rs words
BASIC_COUNT_SHIFT == CountBits
CountField == Pow2(BASIC_COUNT_SHIFT)
CountsMod == CountField * CountField
STRONG_COUNT_MASK == CountField - 1
MAX_BASIC_COUNT == (CountField \div 2) - 1
MIN_BASIC_COUNT == -(CountField \div 2)
MAX_STRONG_COUNT == CountField - 1

\* `x as i32` of the basic field
AsSigned(x) == IF x >= CountField \div 2 THEN x - CountField ELSE x
\* `basic as usize << BASIC_COUNT_SHIFT`, the high bits shifted out
AsField(b) == (b % CountField) * CountField

BasicOf(w) == AsSigned(w \div CountField)
StrongOf(w) == w % CountField

Min(a, b) == IF a < b THEN a ELSE b
Max(a, b) == IF a > b THEN a ELSE b

\* Inner::release's subtrahend: strong | ((basic as usize) << BASIC_COUNT_SHIFT)
ReleaseDelta(basic, strong) == strong + AsField(basic)

\* Inner::release on a counts word: the word after the wrapping fetch_sub and
\* what the code does next.
ReleaseFreeBasicOnly(old, basic, strong) ==
    BasicOf(old) = basic
ReleaseFree(old, basic, strong) ==
    BasicOf(old) = basic /\ StrongOf(old) = strong

ReleaseOutcome(old, basic, strong) ==
    IF BasicOf(old) > MAX_BASIC_COUNT + Min(basic, 0) THEN "abort"
    ELSE IF BasicOf(old) < MIN_BASIC_COUNT + Max(basic, 0) THEN "abort"
    ELSE IF ReleaseFree(old, basic, strong) THEN "free"
    ELSE "ok"

ReleaseWord(old, basic, strong) ==
    (old - ReleaseDelta(basic, strong)) % CountsMod

\* ------------------------------------------------- atomic_arc/mod.rs words
PTR_SHIFT == 4
OUTER_COUNT_SHIFT == PtrBits
PTR_MASK == Pow2(PtrBits) - 1
WordMod == Pow2(PtrBits + OuterBits)
OuterUnit == Pow2(OUTER_COUNT_SHIFT)
\* `1 << 20 - 1`: the subtraction binds tighter than the shift
MAX_OUTER_COUNT == Pow2(OuterBits - 1)

\* (ptr_and_count & PTR_MASK) << PTR_SHIFT
PtrOf(w) == (w % (PTR_MASK + 1)) * Pow2(PTR_SHIFT)
\* ptr_and_count >> OUTER_COUNT_SHIFT
OuterOf(w) == w \div OuterUnit

\* the word AtomicArc::new, new_nullable, store and swap write: ptr >> PTR_SHIFT
PackUnshifted(ptr) == ptr
Pack(ptr) == ptr \div Pow2(PTR_SHIFT)
\* the word compare_exchange hands to compare_exchange_weak: new_ptr as it is
CasWord(new_ptr) == new_ptr

\* The addresses a cell word can designate: those of the Inners, null, and
\* what PtrOf makes of a word written by CasWord.
WildAddrs == {PtrOf(CasWord(a)) : a \in Addrs} \ (Addrs \cup {0})
HandleAddrs == Addrs \cup WildAddrs

\* cell 1 is an AtomicArc<T, NonNull>, cell 2 a NullableAtomicArc<T>
Nullable(c) == c = 2

VARIABLES
    counts,     \* Inner.counts of each address
    istate,     \* "unalloc" | "live" | "freed"
    frees,      \* how often Box::from_raw ran on the address
    cell,       \* AtomicArc.ptr_and_count of each cell
    cstate,     \* "none" | "init" | "live" | "dropped"
    held,       \* the Arc<T> each thread owns, counted per address
    pc,         \* each thread's position
    loc,        \* each thread's locals
    last,       \* what the last finished call returned, and to which thread
    src,        \* which call wrote the cell's pointer field, with which Arc
    aborted,    \* std::process::abort() ran
    ub,         \* an Inner that is not live was accessed
    calls       \* how many calls the threads have made

arcVars == <<counts, istate, frees, cell, cstate, held, pc, loc, last, src, aborted, ub, calls>>

VARIABLES
    table,      \* HashMap.table: the level of the Buckets it points at
    resizer,    \* Buckets.resizer of each level: 0 (None), or the thread whose Resizer::new made the Resizer
    markers,    \* Resizer.markers of each level's Resizer
    arr,        \* arr[l][b]: the virtual bucket at index b of level l and its `next` chain
    items,      \* HashMap.items
    hash_builder, \* HashMap.hash_builder: the hash of each key
    mt,         \* each thread's call on the map: position and locals
    done,       \* per key: the last write that returned, and the writes made
    mlast,      \* what the last finished call returned
    mops        \* how many calls on the map were started

mapVars == <<table, resizer, markers, arr, items, hash_builder, mt, done, mlast, mops>>

NoLoc == [c |-> 0, new |-> 0, cur |-> 0, old |-> 0, ret |-> FALSE]
NoLast == [op |-> "none", t |-> 0, c |-> 0, got |-> 0, want |-> 0, kind |-> "none", ret |-> FALSE]

ArcInit ==
    /\ counts = [a \in Addrs |-> 0]
    /\ istate = [a \in Addrs |-> "unalloc"]
    /\ frees = [a \in Addrs |-> 0]
    /\ cell = [c \in Cells |-> 0]
    /\ cstate = [c \in Cells |-> "none"]
    /\ held = [t \in Threads |-> [a \in HandleAddrs |-> 0]]
    /\ pc = [t \in Threads |-> "idle"]
    /\ loc = [t \in Threads |-> NoLoc]
    /\ last = NoLast
    /\ src = [c \in Cells |-> [kind |-> "none", addr |-> 0]]
    /\ aborted = FALSE
    /\ ub = FALSE
    /\ calls = 0

Running == ~aborted /\ ~ub

HeldTotal(t) ==
    LET RECURSIVE Sum(_)
        Sum(S) == IF S = {} THEN 0
                  ELSE LET a == CHOOSE x \in S : TRUE IN held[t][a] + Sum(S \ {a})
    IN Sum(HandleAddrs)

Live(a) == a \in Addrs /\ istate[a] = "live"

\* ------------------------------------------------------- accesses to an Inner
\* Every step below makes at most one atomic access to one Inner.  An access
\* to an address that holds no live Inner is undefined behaviour: the model
\* records it and stops.
NoInner == UNCHANGED <<counts, istate, frees, aborted, ub>>

Undefined ==
    /\ ub' = TRUE
    /\ UNCHANGED <<counts, istate, frees, aborted>>

\* Inner::strong_acquire
strong_acquire(a) ==
    IF ~Live(a) THEN Undefined
    ELSE /\ counts' = [counts EXCEPT ![a] = (@ + 1) % CountsMod]
         /\ aborted' = (StrongOf(counts[a]) = MAX_STRONG_COUNT)
         /\ UNCHANGED <<istate, frees, ub>>

\* Inner::release
release(a, basic, strong) ==
    IF ~Live(a) THEN Undefined
    ELSE LET out == ReleaseOutcome(counts[a], basic, strong) IN
         /\ counts' = [counts EXCEPT ![a] = ReleaseWord(@, basic, strong)]
         /\ aborted' = (out = "abort")
         /\ istate' = IF out = "free" THEN [istate EXCEPT ![a] = "freed"] ELSE istate
         /\ frees' = IF out = "free" THEN [frees EXCEPT ![a] = @ + 1] ELSE frees
         /\ UNCHANGED ub

\* Arc::clone's fetch_add
clone_inner(a) ==
    IF ~Live(a) THEN Undefined
    ELSE /\ counts' = [counts EXCEPT ![a] = (@ + CountField) % CountsMod]
         /\ aborted' = (BasicOf(counts[a]) = MAX_BASIC_COUNT)
         /\ UNCHANGED <<istate, frees, ub>>

\* Arc::drop
drop_arc(a) == release(a, 1, 0)

\* NullPolicy::strong_acquire: NonNull always, Nullable for Some
policy_strong_acquire(a) == IF a = 0 THEN NoInner ELSE strong_acquire(a)

\* NullPolicy::strong_release.  NonNull has no null test; a NonNull cell is
\* never handed a null Arc.
policy_strong_release_leak(a) == NoInner
policy_strong_release(a) == IF a = 0 THEN NoInner ELSE release(a, 0, 1)

\* AtomicArc::release
cell_release(w) ==
    IF PtrOf(w) = 0 THEN NoInner ELSE release(PtrOf(w), -OuterOf(w), 1)

\* dropping the Option<Arc<T>> or Arc<T> a call was given
drop_given(a) == IF a = 0 THEN NoInner ELSE drop_arc(a)

Give(t, a) == IF a = 0 THEN held ELSE [held EXCEPT ![t][a] = @ + 1]
Take(t, a) == IF a = 0 THEN held ELSE [held EXCEPT ![t][a] = @ - 1]

\* the Arc values a thread can pass to a cell: one it owns, or None to a
\* nullable cell
Given(t, c) == {a \in Addrs : held[t][a] > 0} \cup (IF Nullable(c) THEN {0} ELSE {})

Idle(t) == Running /\ pc[t] = "idle" /\ calls < MaxCalls
At(t, label) == Running /\ pc[t] = label

\* ------------------------------------------------------------------ Arc<T>
\* Arc::new
ArcNew(t, a) ==
    /\ Idle(t)
    /\ istate[a] = "unalloc"
    /\ HeldTotal(t) < MaxHeld
    /\ istate' = [istate EXCEPT ![a] = "live"]
    /\ counts' = [counts EXCEPT ![a] = CountField]
    /\ held' = Give(t, a)
    /\ last' = NoLast
    /\ UNCHANGED <<frees, cell, cstate, pc, loc, src, aborted, ub>>
    /\ calls' = calls + 1
    /\ UNCHANGED mapVars

\* Arc::clone
ArcClone(t, a) ==
    /\ Idle(t)
    /\ held[t][a] > 0
    /\ HeldTotal(t) < MaxHeld
    /\ clone_inner(a)
    /\ held' = Give(t, a)
    /\ last' = NoLast
    /\ UNCHANGED <<cell, cstate, pc, loc, src>>
    /\ calls' = calls + 1
    /\ UNCHANGED mapVars

\* Arc::drop
ArcDrop(t, a) ==
    /\ Idle(t)
    /\ held[t][a] > 0
    /\ drop_arc(a)
    /\ held' = Take(t, a)
    /\ last' = [NoLast EXCEPT !.t = t, !.op = "drop", !.got = a]
    /\ UNCHANGED <<cell, cstate, pc, loc, src>>
    /\ calls' = calls + 1
    /\ UNCHANGED mapVars

\* -------------------------------------------------------------- AtomicArc<T>
\* AtomicArc::new / new_nullable: the strong_acquire and the word
CellNew(t, c, a) ==
    /\ Idle(t)
    /\ cstate[c] = "none"
    /\ a \in Given(t, c)
    /\ policy_strong_acquire(a)
    /\ cell' = [cell EXCEPT ![c] = Pack(a)]
    /\ cstate' = [cstate EXCEPT ![c] = "init"]
    /\ src' = [src EXCEPT ![c] = [kind |-> "new", addr |-> a]]
    /\ pc' = [pc EXCEPT ![t] = "new_drop"]
    /\ loc' = [loc EXCEPT ![t] = [NoLoc EXCEPT !.c = c, !.new = a]]
    /\ last' = NoLast
    /\ UNCHANGED <<held>>
    /\ calls' = calls + 1
    /\ UNCHANGED mapVars

\* ... and the drop of `arc` as the constructor returns
CellNewDrop(t) ==
    /\ At(t, "new_drop")
    /\ drop_given(loc[t].new)
    /\ held' = Take(t, loc[t].new)
    /\ cstate' = [cstate EXCEPT ![loc[t].c] = "live"]
    /\ pc' = [pc EXCEPT ![t] = "idle"]
    /\ loc' = [loc EXCEPT ![t] = NoLoc]
    /\ last' = [NoLast EXCEPT !.t = t, !.op = "new", !.c = loc[t].c]
    /\ UNCHANGED <<cell, src>>
    /\ UNCHANGED calls
    /\ UNCHANGED mapVars

\* AtomicArc::load: the fetch_add, the test of the count it observed and
\* from_ptr
load(t, c) ==
    /\ cell' = [cell EXCEPT ![c] = (@ + OuterUnit) % WordMod]
    /\ aborted' = (OuterOf(cell[c]) = MAX_OUTER_COUNT)
    /\ IF aborted'
       THEN last' = NoLast /\ UNCHANGED <<held, ub>>
       ELSE IF PtrOf(cell[c]) = 0 /\ ~Nullable(c)
            THEN ub' = TRUE /\ last' = NoLast /\ UNCHANGED held
       ELSE /\ held' = Give(t, PtrOf(cell[c]))
            /\ last' = [op |-> "load", t |-> t, c |-> c, got |-> PtrOf(cell[c]),
                        want |-> src[c].addr, kind |-> src[c].kind, ret |-> FALSE]
            /\ UNCHANGED ub
    /\ UNCHANGED <<counts, istate, frees, cstate, pc, loc, src>>

Load(t, c) ==
    /\ Idle(t)
    /\ cstate[c] = "live"
    /\ HeldTotal(t) < MaxHeld
    /\ IF OuterOf(cell[c]) < MaxLoads THEN TRUE ELSE OuterOf(cell[c]) >= MAX_OUTER_COUNT
    /\ load(t, c)
    /\ calls' = calls + 1
    /\ UNCHANGED mapVars

\* AtomicArc::store: strong_acquire of the new Arc
Store(t, c, a) ==
    /\ Idle(t)
    /\ cstate[c] = "live"
    /\ a \in Given(t, c)
    /\ policy_strong_acquire(a)
    /\ pc' = [pc EXCEPT ![t] = "store_swap"]
    /\ loc' = [loc EXCEPT ![t] = [NoLoc EXCEPT !.c = c, !.new = a]]
    /\ last' = NoLast
    /\ UNCHANGED <<cell, cstate, held, src>>
    /\ calls' = calls + 1
    /\ UNCHANGED mapVars

\* ... the swap of the word
StoreSwap(t) ==
    /\ At(t, "store_swap")
    /\ cell' = [cell EXCEPT ![loc[t].c] = Pack(loc[t].new)]
    /\ src' = [src EXCEPT ![loc[t].c] = [kind |-> "store", addr |-> loc[t].new]]
    /\ loc' = [loc EXCEPT ![t].old = cell[loc[t].c]]
    /\ pc' = [pc EXCEPT ![t] = "store_release"]
    /\ NoInner
    /\ last' = NoLast
    /\ UNCHANGED <<cstate, held>>
    /\ UNCHANGED calls
    /\ UNCHANGED mapVars

\* ... the release of the word it replaced
StoreRelease(t) ==
    /\ At(t, "store_release")
    /\ cell_release(loc[t].old)
    /\ pc' = [pc EXCEPT ![t] = "store_drop"]
    /\ last' = NoLast
    /\ UNCHANGED <<cell, cstate, held, loc, src>>
    /\ UNCHANGED calls
    /\ UNCHANGED mapVars

\* ... and the drop of `arc` as it returns
StoreDrop(t) ==
    /\ At(t, "store_drop")
    /\ drop_given(loc[t].new)
    /\ held' = Take(t, loc[t].new)
    /\ pc' = [pc EXCEPT ![t] = "idle"]
    /\ loc' = [loc EXCEPT ![t] = NoLoc]
    /\ last' = [NoLast EXCEPT !.t = t, !.op = "store", !.c = loc[t].c,
                              !.want = loc[t].new]
    /\ UNCHANGED <<cell, cstate, src>>
    /\ UNCHANGED calls
    /\ UNCHANGED mapVars

\* AtomicArc::swap: strong_acquire of the new Arc
Swap(t, c, a) ==
    /\ Idle(t)
    /\ cstate[c] = "live"
    /\ a \in Given(t, c)
    /\ HeldTotal(t) <= MaxHeld
    /\ policy_strong_acquire(a)
    /\ pc' = [pc EXCEPT ![t] = "swap_swap"]
    /\ loc' = [loc EXCEPT ![t] = [NoLoc EXCEPT !.c = c, !.new = a]]
    /\ last' = NoLast
    /\ UNCHANGED <<cell, cstate, held, src>>
    /\ calls' = calls + 1
    /\ UNCHANGED mapVars

\* ... the swap of the word and the checked_add on what it returned; the
\* unwrap panics on a carry out of the word, and the unwinding drops `arc`
SwapSwap(t) ==
    /\ At(t, "swap_swap")
    /\ cell' = [cell EXCEPT ![loc[t].c] = Pack(loc[t].new)]
    /\ src' = [src EXCEPT ![loc[t].c] = [kind |-> "swap", addr |-> loc[t].new]]
    /\ IF cell[loc[t].c] + OuterUnit >= WordMod
       THEN /\ pc' = [pc EXCEPT ![t] = "panic_drop"]
            /\ UNCHANGED loc
       ELSE /\ pc' = [pc EXCEPT ![t] = "swap_release"]
            /\ loc' = [loc EXCEPT ![t].old = cell[loc[t].c] + OuterUnit]
    /\ NoInner
    /\ last' = NoLast
    /\ UNCHANGED <<cstate, held>>
    /\ UNCHANGED calls
    /\ UNCHANGED mapVars

\* ... the release of the word it replaced, and the Arc made of its pointer
SwapRelease(t) ==
    /\ At(t, "swap_release")
    /\ cell_release(loc[t].old)
    /\ IF PtrOf(loc[t].old) = 0 /\ ~Nullable(loc[t].c)
       THEN FALSE
       ELSE held' = Give(t, PtrOf(loc[t].old))
    /\ pc' = [pc EXCEPT ![t] = "swap_drop"]
    /\ last' = NoLast
    /\ UNCHANGED <<cell, cstate, loc, src>>
    /\ UNCHANGED calls
    /\ UNCHANGED mapVars

\* ... and the drop of `arc` as it returns, or as the panic unwinds and the
\* thread ends
SwapDrop(t) ==
    /\ Running /\ pc[t] \in {"swap_drop", "panic_drop"}
    /\ drop_given(loc[t].new)
    /\ held' = Take(t, loc[t].new)
    /\ pc' = [pc EXCEPT ![t] = IF pc[t] = "panic_drop" THEN "panicked" ELSE "idle"]
    /\ loc' = [loc EXCEPT ![t] = NoLoc]
    /\ last' = [NoLast EXCEPT !.t = t, !.op = "swap", !.c = loc[t].c,
                              !.got = PtrOf(loc[t].old), !.want = loc[t].new]
    /\ UNCHANGED <<cell, cstate, src>>
    /\ UNCHANGED calls
    /\ UNCHANGED mapVars

\* AtomicArc::compare_exchange: strong_acquire of `new`; `current` is borrowed
CompareExchange(t, c, cur, new) ==
    /\ Idle(t)
    /\ cstate[c] = "live"
    /\ new \in Given(t, c)
    /\ cur \in Given(t, c)
    /\ IF cur = new /\ cur # 0 THEN held[t][cur] > 1 ELSE TRUE
    /\ policy_strong_acquire(new)
    /\ pc' = [pc EXCEPT ![t] = "ce_load"]
    /\ loc' = [loc EXCEPT ![t] = [NoLoc EXCEPT !.c = c, !.new = new, !.cur = cur]]
    /\ last' = NoLast
    /\ UNCHANGED <<cell, cstate, held, src>>
    /\ calls' = calls + 1
    /\ UNCHANGED mapVars

\* ... the Relaxed load of the word
CeLoad(t) ==
    /\ At(t, "ce_load")
    /\ loc' = [loc EXCEPT ![t].old = cell[loc[t].c]]
    /\ pc' = [pc EXCEPT ![t] = "ce_loop"]
    /\ NoInner
    /\ last' = NoLast
    /\ UNCHANGED <<cell, cstate, held, src>>
    /\ UNCHANGED calls
    /\ UNCHANGED mapVars

\* ... one turn of the loop whose pointer test fails: strong_release, false
CeMismatch(t) ==
    /\ At(t, "ce_loop")
    /\ PtrOf(loc[t].old) # loc[t].cur
    /\ policy_strong_release(loc[t].new)
    /\ loc' = [loc EXCEPT ![t].ret = FALSE]
    /\ pc' = [pc EXCEPT ![t] = "ce_drop"]
    /\ last' = NoLast
    /\ UNCHANGED <<cell, cstate, held, src>>
    /\ UNCHANGED calls
    /\ UNCHANGED mapVars

\* ... one turn whose pointer test passes: compare_exchange_weak, which
\* writes the word or hands back the one it found
CeCas(t) ==
    /\ At(t, "ce_loop")
    /\ PtrOf(loc[t].old) = loc[t].cur
    /\ IF cell[loc[t].c] = loc[t].old
       THEN /\ cell' = [cell EXCEPT ![loc[t].c] = CasWord(loc[t].new)]
            /\ src' = [src EXCEPT ![loc[t].c] = [kind |-> "cas", addr |-> loc[t].new]]
            /\ pc' = [pc EXCEPT ![t] = "ce_release"]
            /\ UNCHANGED loc
       ELSE /\ loc' = [loc EXCEPT ![t].old = cell[loc[t].c]]
            /\ UNCHANGED <<cell, src, pc>>
    /\ NoInner
    /\ last' = NoLast
    /\ UNCHANGED <<cstate, held>>
    /\ UNCHANGED calls
    /\ UNCHANGED mapVars

\* ... the release of the word the CAS replaced, true
CeRelease(t) ==
    /\ At(t, "ce_release")
    /\ cell_release(loc[t].old)
    /\ loc' = [loc EXCEPT ![t].ret = TRUE]
    /\ pc' = [pc EXCEPT ![t] = "ce_drop"]
    /\ last' = NoLast
    /\ UNCHANGED <<cell, cstate, held, src>>
    /\ UNCHANGED calls
    /\ UNCHANGED mapVars

\* ... and the drop of `new` as it returns
CeDrop(t) ==
    /\ At(t, "ce_drop")
    /\ drop_given(loc[t].new)
    /\ held' = Take(t, loc[t].new)
    /\ pc' = [pc EXCEPT ![t] = "idle"]
    /\ loc' = [loc EXCEPT ![t] = NoLoc]
    /\ last' = [op |-> "ce", t |-> t, c |-> loc[t].c, got |-> loc[t].cur,
                want |-> loc[t].new, kind |-> "none", ret |-> loc[t].ret]
    /\ UNCHANGED <<cell, cstate, src>>
    /\ UNCHANGED calls
    /\ UNCHANGED mapVars

\* Drop for AtomicArc: `&mut self`, so no call on the cell is under way
CellDrop(t, c) ==
    /\ Idle(t)
    /\ cstate[c] = "live"
    /\ \A u \in Threads : pc[u] \in {"idle", "panicked"} \/ loc[u].c # c
    /\ cell_release(cell[c])
    /\ cstate' = [cstate EXCEPT ![c] = "dropped"]
    /\ last' = [NoLast EXCEPT !.t = t, !.op = "cell_drop", !.c = c]
    /\ UNCHANGED <<cell, held, pc, loc, src>>
    /\ calls' = calls + 1
    /\ UNCHANGED mapVars

\* the calls of Arc<T> and of AtomicArc<T> but compare_exchange
CellsNext ==
    \E t \in Threads :
        \/ \E a \in Addrs : ArcNew(t, a)
        \/ \E a \in Addrs : ArcClone(t, a)
        \/ \E a \in HandleAddrs : ArcDrop(t, a)
        \/ \E c \in Cells, a \in Addrs \cup {0} : CellNew(t, c, a)
        \/ CellNewDrop(t)
        \/ \E c \in Cells : Load(t, c)
        \/ \E c \in Cells, a \in Addrs \cup {0} : Store(t, c, a)
        \/ StoreSwap(t)
        \/ StoreRelease(t)
        \/ StoreDrop(t)
        \/ \E c \in Cells, a \in Addrs \cup {0} : Swap(t, c, a)
        \/ SwapSwap(t)
        \/ SwapRelease(t)
        \/ SwapDrop(t)
        \/ \E c \in Cells : CellDrop(t, c)

CasNext ==
    \E t \in Threads :
        \/ \E c \in Cells, cur \in Addrs \cup {0}, new \in Addrs \cup {0} :
               CompareExchange(t, c, cur, new)
        \/ CeLoad(t)
        \/ CeMismatch(t)
        \/ CeCas(t)
        \/ CeRelease(t)
        \/ CeDrop(t)

ArcNext == CellsNext \/ CasNext

\* ============================================================== hash_map
\* The map's bucket arrays are identified by their level: the array of level
\* l has 2^l virtual buckets, HashMap::new() allocates level 0 and a Resizer
\* of the table of level l allocates level l + 1.  A chunk copy, a table
\* swap and every access below are single atomic accesses of the code; a
\* read of a location that is written once (a slot's hash, a slot's entry
\* pointer, an entry's key, `next`, the resizer cell) is joined to the
\* access that precedes it.
N == Slots
CHUNK_SIZE == ChunkBuckets
DEPTH_TRESHOLD == 1
Keys == 1 .. MaxKey
Levels == 0 .. MaxLevel

\* S: BuildHasher is the caller's choice.  Two hashers stand for it: one that
\* spreads the keys (0, 1, 2, 3, ..) and one whose hashes all end in the same
\* bit (0, 1, 3, 5, ..); both send key 1 to 0 and key 2 to 1.
Hashers ==
    {[k \in Keys |-> k - 1], [k \in Keys |-> IF k = 1 THEN 0 ELSE 2 * k - 3]}
\* state.finish() of the key's hasher
finish(k) == hash_builder[k]
\* HashMap::hash
hash(k) == IF finish(k) = 0 THEN 1 ELSE finish(k)
\* table.buckets.len() of the table of level l
BucketsLen(l) == Pow2(l)
\* Buckets::hash_into, Resizer::hash_into: hash & (len - 1)
hash_into(l, h) == h % BucketsLen(l)
\* Resizer::new: chunks = (old_size + CHUNK_SIZE - 1) / CHUNK_SIZE
Chunks(l) == (BucketsLen(l) + CHUNK_SIZE - 1) \div CHUNK_SIZE
\* copy_chunk_to: lower and upper
Lower(c) == c * CHUNK_SIZE
Upper(l, c) == Min(Lower(c) + CHUNK_SIZE, BucketsLen(l))
\* items as f32 / (len * N) as f32 >= MIN_LOAD_FACTOR_FOR_RESIZE (0.5); a
\* counter that went below zero has wrapped to the top of u64
LoadFactorHigh(it, l) == it < 0 \/ 2 * it >= BucketsLen(l) * N

\* the V of the i-th insert(k, V)
Val(k, i) == 10 * k + i
KeyOfVal(v) == v \div 10

\* VirtualBucket::default()
EmptyBucket ==
    [h |-> [j \in 1 .. N |-> 0], k |-> [j \in 1 .. N |-> 0], v |-> [j \in 1 .. N |-> 0]]

NoCall ==
    [pc |-> "idle", op |-> "none", key |-> 0, val |-> 0, tbl |-> 0, high |-> FALSE,
     ctx |-> "none", upd |-> "none", lvl |-> 0, b |-> 0, d |-> 0, j |-> 0,
     ih |-> 0, ik |-> 0, iv |-> 0, inew |-> FALSE,
     rz |-> 0, c |-> 0, cb |-> 0, cs |-> 0, removed |-> 0, clean |-> TRUE, exp |-> "none",
     expv |-> 0, stale |-> FALSE]
NoDone == [kind |-> "none", val |-> 0, n |-> 0, rm |-> FALSE]
NoMLast == [op |-> "none", t |-> 0, key |-> 0, got |-> 0, exp |-> "none", expv |-> 0]

\* HashMap::new()
MapFresh ==
    /\ hash_builder \in Hashers
    /\ table = 0
    /\ resizer = [l \in Levels |-> 0]
    /\ markers = [l \in Levels |-> [c \in 0 .. Chunks(l) - 1 |-> 0]]
    /\ arr = [l \in 0 .. MaxLevel |-> [b \in 0 .. BucketsLen(l) - 1 |-> <<EmptyBucket>>]]
    /\ items = 0
    /\ mt = [t \in Threads |-> NoCall]
    /\ done = [k \in Keys |-> NoDone]
    /\ mlast = NoMLast
    /\ mops = 0

\* the map after insert(1, _) and insert(2, _) on HashMap::new()
MapTwoKeys ==
    /\ hash_builder \in Hashers
    /\ table = 0
    /\ resizer = [l \in Levels |-> 0]
    /\ markers = [l \in Levels |-> [c \in 0 .. Chunks(l) - 1 |-> 0]]
    /\ arr = [l \in 0 .. MaxLevel |-> [b \in 0 .. BucketsLen(l) - 1 |->
                 IF l = 0
                 THEN <<[h |-> [j \in 1 .. N |-> IF j <= 2 THEN hash(j) ELSE 0],
                         k |-> [j \in 1 .. N |-> IF j <= 2 THEN j ELSE 0],
                         v |-> [j \in 1 .. N |-> IF j <= 2 THEN Val(j, 1) ELSE 0]]>>
                 ELSE <<EmptyBucket>>]]
    /\ items = 2
    /\ mt = [t \in Threads |-> NoCall]
    /\ done = [k \in Keys |-> IF k <= 2 THEN [kind |-> "insert", val |-> Val(k, 1), n |-> 1, rm |-> FALSE]
                              ELSE NoDone]
    /\ mlast = NoMLast
    /\ mops = 0

\* A map with keys in an overflow bucket of its table.  Under the hasher
\* whose hashes are all odd: keys 1 .. N were inserted and fill the one
\* bucket; inserts of keys N + 1 .. 2N got ResizeNeeded and put their keys in
\* bucket 1 of the Resizer, which they fill; thread 2's insert(1, _) replaced
\* the value in the table and, reinserting, installed that bucket's `next`
\* and panicked; thread 1, holding the chunk's marker, then copied keys
\* 1 .. N into the overflow bucket and swapped the table.
FilledBucket(first) ==
    [h |-> [j \in 1 .. N |-> hash(first + j - 1)],
     k |-> [j \in 1 .. N |-> first + j - 1],
     v |-> [j \in 1 .. N |-> Val(first + j - 1, IF first + j - 1 = 1 THEN 2 ELSE 1)]]
OverflowedMap ==
    /\ hash_builder = [k \in Keys |-> IF k = 1 THEN 0 ELSE 2 * k - 3]
    /\ table = 1
    /\ resizer = [l \in Levels |-> IF l = 0 THEN 1 ELSE 0]
    /\ markers = [l \in Levels |-> [c \in 0 .. Chunks(l) - 1 |-> IF l = 0 THEN 2 ELSE 0]]
    /\ arr = [l \in 0 .. MaxLevel |-> [b \in 0 .. BucketsLen(l) - 1 |->
                 IF l = 0 THEN <<FilledBucket(1)>>
                 ELSE IF l = 1 /\ b = 1 THEN <<FilledBucket(N + 1), FilledBucket(1)>>
                 ELSE <<EmptyBucket>>]]
    /\ items = 2 * N
    /\ mt = [t \in Threads |->
                 IF t = 2 THEN [NoCall EXCEPT !.pc = "panicked", !.op = "insert", !.key = 1,
                                             !.clean = FALSE]
                 ELSE NoCall]
    /\ done = [k \in Keys |->
                 IF k = 1 THEN [kind |-> "insert", val |-> Val(1, 1), n |-> 2, rm |-> FALSE]
                 ELSE IF k <= 2 * N THEN [kind |-> "insert", val |-> Val(k, 1), n |-> 1, rm |-> FALSE]
                 ELSE NoDone]
    /\ mlast = [op |-> "insert", t |-> 1, key |-> N + 1, got |-> Val(N + 1, 1), exp |-> "none",
                expv |-> 0]
MapOverflowed == OverflowedMap /\ mops = 0

MapInit == MapFresh \/ MapTwoKeys \/ MapOverflowed

MapIdle(t) == mt[t].pc = "idle" /\ mops < MaxMapOps
Writing(u, k) == mt[u].pc # "idle" /\ mt[u].op \in {"insert", "remove"} /\ mt[u].key = k

\* thread t enters the call m: a write that overlaps another call on the key
\* takes the `clean` mark from both
Enter(t, m) ==
    /\ mt' = [u \in Threads |->
                 IF u = t
                 THEN [m EXCEPT !.clean = ~\E w \in Threads \ {t} : Writing(w, m.key),
                                !.exp = done[m.key].kind, !.expv = done[m.key].val]
                 ELSE IF mt[u].pc # "idle" /\ mt[u].key = m.key /\ m.op # "get"
                      THEN [mt[u] EXCEPT !.clean = FALSE]
                      ELSE mt[u]]
    /\ mlast' = NoMLast
    /\ mops' = mops + 1
    /\ UNCHANGED arcVars

\* thread t goes on as m; with m.pc = "ret" the call returns
Go(t, m) ==
    /\ mops' = mops
    /\ UNCHANGED arcVars
    /\ IF m.pc = "ret"
       THEN /\ mt' = [mt EXCEPT ![t] = NoCall]
            /\ mlast' = [op |-> m.op, t |-> t, key |-> m.key, got |-> m.val,
                         exp |-> IF m.clean THEN m.exp ELSE "any", expv |-> m.expv]
            /\ done' = IF m.op = "get" THEN done
                       ELSE [done EXCEPT ![m.key].kind = IF m.clean THEN m.op ELSE "any",
                                         ![m.key].val = IF m.op = "insert" THEN m.val ELSE 0]
       ELSE /\ mt' = [mt EXCEPT ![t] = m]
            /\ mlast' = NoMLast
            /\ done' = done

Ret(m) == [m EXCEPT !.pc = "ret"]
\* a panic unwinds the call
Panic(m) == [NoCall EXCEPT !.pc = "panicked", !.op = m.op, !.key = m.key, !.clean = FALSE]
\* the locals of a finished VirtualBucket call
Clear(m) ==
    [m EXCEPT !.ctx = "none", !.upd = "none", !.lvl = 0, !.b = 0, !.d = 0, !.j = 0,
              !.ih = 0, !.ik = 0, !.iv = 0, !.inew = FALSE, !.high = FALSE]

\* table.hash_into(hash).insert(hash, key, value, is_new_item, load_factor, 1)
BeginInsert(m, ctx, l, h, k, v, isnew, high) ==
    [m EXCEPT !.pc = "vb_slot", !.ctx = ctx, !.lvl = l, !.b = hash_into(l, h), !.d = 1,
              !.j = 1, !.ih = h, !.ik = k, !.iv = v, !.inew = isnew, !.high = high]
\* table.hash_into(hash).remove(hash, key)
BeginRemove(m, ctx, l, h, k) ==
    [m EXCEPT !.pc = "rm_slot", !.ctx = ctx, !.lvl = l, !.b = hash_into(l, h), !.d = 1,
              !.j = 1, !.ih = h, !.ik = k]

\* resize_with_pending_update: the loop over resizer.markers, from chunk c on
MarkFrom(m, c) ==
    IF c < Chunks(m.tbl) THEN [m EXCEPT !.pc = "mark", !.c = c]
    ELSE [m EXCEPT !.pc = "check", !.c = 0]

\* copy_to's loop over the slots, inside copy_chunk_to's loop over the
\* chunk's buckets
CopyNext(m) ==
    IF m.cs < N THEN [Clear(m) EXCEPT !.pc = "copy_slot", !.cs = m.cs + 1]
    ELSE IF m.cb + 1 < Upper(m.tbl, m.c)
         THEN [Clear(m) EXCEPT !.pc = "copy_slot", !.cb = m.cb + 1, !.cs = 1]
         ELSE [Clear(m) EXCEPT !.pc = "copy_sub", !.cb = 0, !.cs = 0]

\* resize_with_pending_update's match on the update's result: only
\* PendingUpdate::Insert with Ok(true) counts a new item
CountsEveryUpdate(upd, res) == res = "true"
CountsItem(upd, res) == upd = "Insert" /\ res = "true"

\* what the caller does with VirtualBucket::insert's result
InsertReturn(m, res) ==
    IF m.ctx = "main"
    THEN IF res = "resize" THEN [Clear(m) EXCEPT !.pc = "ins_new_resizer"]
         ELSE IF res = "true" THEN [Clear(m) EXCEPT !.pc = "ins_items"]
         ELSE [Clear(m) EXCEPT !.pc = "ins_resizer"]
    ELSE IF res = "resize" THEN Panic(m)
    ELSE IF m.ctx = "upd"
         THEN IF CountsItem(m.upd, res) THEN [Clear(m) EXCEPT !.pc = "upd_items"]
              ELSE MarkFrom(Clear(m), 0)
         ELSE CopyNext(m)

\* VirtualBucket::insert: `continue`, and what follows the loop
InsertContinue(m) ==
    IF m.j < N THEN [m EXCEPT !.pc = "vb_slot", !.j = m.j + 1]
    ELSE IF m.high /\ m.d >= DEPTH_TRESHOLD THEN InsertReturn(m, "resize")
    ELSE [m EXCEPT !.pc = "vb_next"]

\* VirtualBucket::insert with a non-null entry in hand
InsertPastEntry(m, slot_hash, entry_key) == InsertContinue(m)
InsertOnEntry(m, slot_hash, entry_key) ==
    IF slot_hash # m.ih \/ entry_key # m.ik THEN InsertContinue(m)
    ELSE IF ~m.inew THEN InsertReturn(m, "false")
    ELSE [m EXCEPT !.pc = "vb_store"]

\* what the caller does when VirtualBucket::remove returns
RemoveReturn(m) ==
    IF m.ctx = "main" THEN [Clear(m) EXCEPT !.pc = "rem_resizer"]
    ELSE MarkFrom(Clear(m), 0)

\* resize_with_pending_update(&table, &resizer, hash, update, &items)
resize_with_pending_update(m, update) ==
    IF update = "Remove"
    THEN [BeginRemove(m, "upd", m.tbl + 1, hash(m.key), m.key) EXCEPT !.upd = update]
    ELSE [BeginInsert(m, "upd", m.tbl + 1, hash(m.key), m.key, m.val, TRUE, FALSE)
              EXCEPT !.upd = update]

\* ------------------------------------------------------- HashMap::insert
InsertCall(t, k) ==
    /\ MapIdle(t)
    /\ done[k].n < MaxIns
    /\ Enter(t, [NoCall EXCEPT !.pc = "ins_items_load", !.op = "insert", !.key = k,
                               !.val = Val(k, done[k].n + 1), !.tbl = table])
    /\ done' = [done EXCEPT ![k].n = @ + 1]
    /\ UNCHANGED <<hash_builder, table, resizer, markers, arr, items>>

InsItemsLoad(t) ==
    /\ mt[t].pc = "ins_items_load"
    /\ Go(t, [BeginInsert(mt[t], "main", mt[t].tbl, hash(mt[t].key), mt[t].key, mt[t].val,
                          TRUE, LoadFactorHigh(items, mt[t].tbl))
                EXCEPT !.stale = (table # mt[t].tbl)])
    /\ UNCHANGED <<hash_builder, table, resizer, markers, arr, items>>

\* hashes[j].compare_exchange(0, hash) lets the insert go on to the entry: Ok,
\* or Err(actual_hash) with actual_hash == hash
ProceedsOnAnyHash(actual_hash, h) == TRUE
HashCasProceeds(actual_hash, h) == actual_hash = 0 \/ actual_hash = h

\* entries[j].load, and with a null entry hashes[j].compare_exchange(0, hash)
VbSlot(t) ==
    LET m == mt[t]
        vb == arr[m.lvl][m.b][m.d]
    IN  /\ m.pc = "vb_slot"
        /\ IF vb.k[m.j] = 0
           THEN IF vb.h[m.j] = 0
                THEN /\ arr' = [arr EXCEPT ![m.lvl][m.b][m.d].h[m.j] = m.ih]
                     /\ Go(t, [m EXCEPT !.pc = "vb_entry"])
                ELSE /\ arr' = arr
                     /\ Go(t, IF HashCasProceeds(vb.h[m.j], m.ih) THEN [m EXCEPT !.pc = "vb_entry"]
                              ELSE InsertContinue(m))
           ELSE /\ arr' = arr
                /\ Go(t, InsertOnEntry(m, vb.h[m.j], vb.k[m.j]))
        /\ UNCHANGED <<hash_builder, table, resizer, markers, items>>

\* entries[j].compare_exchange(null, new_entry)
VbEntry(t) ==
    LET m == mt[t]
        vb == arr[m.lvl][m.b][m.d]
    IN  /\ m.pc = "vb_entry"
        /\ IF vb.k[m.j] = 0
           THEN /\ arr' = [arr EXCEPT ![m.lvl][m.b][m.d].k[m.j] = m.ik,
                                      ![m.lvl][m.b][m.d].v[m.j] = m.iv]
                /\ Go(t, InsertReturn(m, "true"))
           ELSE /\ arr' = arr
                /\ Go(t, InsertOnEntry(m, vb.h[m.j], vb.k[m.j]))
        /\ UNCHANGED <<hash_builder, table, resizer, markers, items>>

\* entry.value.store(Some(value))
VbStore(t) ==
    LET m == mt[t]
    IN  /\ m.pc = "vb_store"
        /\ arr' = [arr EXCEPT ![m.lvl][m.b][m.d].v[m.j] = m.iv]
        /\ Go(t, InsertReturn(m, "false"))
        /\ UNCHANGED <<hash_builder, table, resizer, markers, items>>

\* self.next.load
VbNext(t) ==
    LET m == mt[t]
    IN  /\ m.pc = "vb_next"
        /\ Go(t, IF Len(arr[m.lvl][m.b]) > m.d
                 THEN [m EXCEPT !.pc = "vb_slot", !.d = m.d + 1, !.j = 1]
                 ELSE [m EXCEPT !.pc = "vb_next_cas"])
        /\ UNCHANGED <<hash_builder, table, resizer, markers, arr, items>>

\* self.next.compare_exchange(null, new_next) and the assert!: Ok(ptr) hands
\* back the previous pointer, null, and the assertion on it fails
VbNextCas(t) ==
    LET m == mt[t]
    IN  /\ m.pc = "vb_next_cas"
        /\ IF Len(arr[m.lvl][m.b]) > m.d
           THEN /\ arr' = arr
                /\ Go(t, [m EXCEPT !.pc = "vb_slot", !.d = m.d + 1, !.j = 1])
           ELSE /\ arr' = [arr EXCEPT ![m.lvl][m.b] = Append(@, EmptyBucket)]
                /\ Go(t, Panic(m))
        /\ UNCHANGED <<hash_builder, table, resizer, markers, items>>

\* self.items.fetch_add(1)
InsItems(t) ==
    /\ mt[t].pc = "ins_items"
    /\ items' = items + 1
    /\ Go(t, [mt[t] EXCEPT !.pc = "ins_resizer"])
    /\ UNCHANGED <<hash_builder, table, resizer, markers, arr>>

\* table.resizer.load()
InsResizer(t) ==
    /\ mt[t].pc = "ins_resizer"
    /\ Go(t, IF resizer[mt[t].tbl] # 0
             THEN resize_with_pending_update([mt[t] EXCEPT !.rz = resizer[mt[t].tbl]], "Reinsert")
             ELSE Ret(mt[t]))
    /\ UNCHANGED <<hash_builder, table, resizer, markers, arr, items>>

\* AtomicArc::try_store(&current, new) on a cell that holds `held_now`: the
\* compare-exchange that installs `new` when the cell still holds `current`
store_always(held_now, current, new) == new
try_store(held_now, current, new) == IF held_now = current THEN new ELSE held_now

\* Err(ResizeNeeded): Resizer::new(2 * old_size, old_size),
\* table.resizer.try_store(&None, Some(..)), table.resizer.load().unwrap()
InsNewResizer(t) ==
    /\ mt[t].pc = "ins_new_resizer"
    /\ mt[t].tbl < MaxLevel
    /\ resizer' = [resizer EXCEPT ![mt[t].tbl] = try_store(@, 0, t)]
    /\ Go(t, resize_with_pending_update(
                 [mt[t] EXCEPT !.rz = try_store(resizer[mt[t].tbl], 0, t)], "Insert"))
    /\ UNCHANGED <<hash_builder, table, markers, arr, items>>

\* PendingUpdate::Insert, Ok(true): items.fetch_add(1)
UpdItems(t) ==
    /\ mt[t].pc = "upd_items"
    /\ items' = items + 1
    /\ Go(t, MarkFrom(mt[t], 0))
    /\ UNCHANGED <<hash_builder, table, resizer, markers, arr>>

\* marker.compare_exchange(0, 1, ..) is Ok
MarkerCasTakesClaimed(marker) == marker # 2
MarkerCas(marker) == marker = 0

\* marker.compare_exchange(0, 1)
Mark(t) ==
    LET m == mt[t]
    IN  /\ m.pc = "mark"
        /\ IF MarkerCas(markers[m.tbl][m.c])
           THEN /\ markers' = [markers EXCEPT ![m.tbl][m.c] = 1]
                /\ Go(t, [m EXCEPT !.pc = "copy_slot", !.cb = Lower(m.c), !.cs = 1,
                                   !.removed = 0])
           ELSE /\ markers' = markers
                /\ Go(t, MarkFrom(m, m.c + 1))
        /\ UNCHANGED <<hash_builder, table, resizer, arr, items>>

\* VirtualBucket::copy_to on self.buckets[cb]: entry.load and entry.value.load()
\* of one slot
CopySlot(t) ==
    LET m == mt[t]
        vb == arr[m.tbl][m.cb][1]
    IN  /\ m.pc = "copy_slot"
        /\ Go(t, IF vb.k[m.cs] = 0 THEN CopyNext(m)
                 ELSE IF vb.v[m.cs] # 0
                      THEN BeginInsert(m, "copy", m.tbl + 1, vb.h[m.cs], vb.k[m.cs],
                                       vb.v[m.cs], FALSE, FALSE)
                      ELSE CopyNext([m EXCEPT !.removed = m.removed + 1]))
        /\ UNCHANGED <<hash_builder, table, resizer, markers, arr, items>>

\* items.fetch_sub(removed)
CopySub(t) ==
    /\ mt[t].pc = "copy_sub"
    /\ items' = items - mt[t].removed
    /\ Go(t, [mt[t] EXCEPT !.pc = "copy_done", !.removed = 0])
    /\ UNCHANGED <<hash_builder, table, resizer, markers, arr>>

\* marker.store(2)
CopyDone(t) ==
    /\ mt[t].pc = "copy_done"
    /\ markers' = [markers EXCEPT ![mt[t].tbl][mt[t].c] = 2]
    /\ Go(t, MarkFrom(mt[t], mt[t].c + 1))
    /\ UNCHANGED <<hash_builder, table, resizer, arr, items>>

\* no marker.load() of the loop differs from 2
SomeMarked(l) == \E c \in 0 .. Chunks(l) - 1 : markers[l][c] = 2
AllMarked(l) == \A c \in 0 .. Chunks(l) - 1 : markers[l][c] = 2

\* the loop of marker.load() != 2: the markers only grow, so what the loop
\* sees is what they are at its last load
Check(t) ==
    /\ mt[t].pc = "check"
    /\ Go(t, IF AllMarked(mt[t].tbl)
             THEN [mt[t] EXCEPT !.pc = "install"]
             ELSE Ret(mt[t]))
    /\ UNCHANGED <<hash_builder, table, resizer, markers, arr, items>>

\* self.table.try_store(&table, Arc::new(new_table))
Install(t) ==
    /\ mt[t].pc = "install"
    /\ table' = try_store(table, mt[t].tbl, mt[t].tbl + 1)
    /\ Go(t, Ret(mt[t]))
    /\ UNCHANGED <<hash_builder, resizer, markers, arr, items>>

\* ------------------------------------------------------- HashMap::remove
RemoveCall(t, k) ==
    /\ MapIdle(t)
    /\ Enter(t, BeginRemove([NoCall EXCEPT !.op = "remove", !.key = k, !.tbl = table],
                            "main", table, hash(k), k))
    /\ done' = [done EXCEPT ![k].rm = TRUE]
    /\ UNCHANGED <<hash_builder, table, resizer, markers, arr, items>>

\* one round of find_hash and entries[pos].load
RmSlot(t) ==
    LET m == mt[t]
        vb == arr[m.lvl][m.b][m.d]
    IN  /\ m.pc = "rm_slot"
        /\ Go(t, IF vb.h[m.j] = m.ih /\ vb.k[m.j] # 0 /\ vb.k[m.j] = m.ik
                 THEN [m EXCEPT !.pc = "rm_store"]
                 ELSE IF m.j < N THEN [m EXCEPT !.j = m.j + 1]
                 ELSE [m EXCEPT !.pc = "rm_next"])
        /\ UNCHANGED <<hash_builder, table, resizer, markers, arr, items>>

\* entry.value.store(None)
RmStore(t) ==
    LET m == mt[t]
    IN  /\ m.pc = "rm_store"
        /\ arr' = [arr EXCEPT ![m.lvl][m.b][m.d].v[m.j] = 0]
        /\ Go(t, RemoveReturn(m))
        /\ UNCHANGED <<hash_builder, table, resizer, markers, items>>

\* self.next.load
RmNext(t) ==
    LET m == mt[t]
    IN  /\ m.pc = "rm_next"
        /\ Go(t, IF Len(arr[m.lvl][m.b]) > m.d
                 THEN [m EXCEPT !.pc = "rm_slot", !.d = m.d + 1, !.j = 1]
                 ELSE RemoveReturn(m))
        /\ UNCHANGED <<hash_builder, table, resizer, markers, arr, items>>

\* table.resizer.load()
RemResizer(t) ==
    /\ mt[t].pc = "rem_resizer"
    /\ Go(t, IF resizer[mt[t].tbl] # 0
             THEN resize_with_pending_update([mt[t] EXCEPT !.rz = resizer[mt[t].tbl]], "Remove")
             ELSE Ret(mt[t]))
    /\ UNCHANGED <<hash_builder, table, resizer, markers, arr, items>>

\* ---------------------------------------------------------- HashMap::get
GetCall(t, k) ==
    /\ MapIdle(t)
    /\ Enter(t, [NoCall EXCEPT !.pc = "get_slot", !.op = "get", !.key = k, !.tbl = table,
                               !.lvl = table, !.b = hash_into(table, hash(k)), !.d = 1,
                               !.j = 1, !.ih = hash(k), !.ik = k])
    /\ UNCHANGED <<hash_builder, table, resizer, markers, arr, items, done>>

\* VirtualBucket::get's test of slot j: find_hash stops at it, its entry is
\* not null and has the key
GetHashOnly(vb, j, h, k) == vb.h[j] = h /\ vb.k[j] # 0
GetMatch(vb, j, h, k) == vb.h[j] = h /\ vb.k[j] # 0 /\ vb.k[j] = k

\* one round of find_hash and entries[pos].load
GetSlot(t) ==
    LET m == mt[t]
        vb == arr[m.lvl][m.b][m.d]
    IN  /\ m.pc = "get_slot"
        /\ Go(t, IF GetMatch(vb, m.j, m.ih, m.ik)
                 THEN [m EXCEPT !.pc = "get_load"]
                 ELSE IF m.j < N THEN [m EXCEPT !.j = m.j + 1]
                 ELSE [m EXCEPT !.pc = "get_next"])
        /\ UNCHANGED <<hash_builder, table, resizer, markers, arr, items>>

\* entry.value.load()
GetLoad(t) ==
    LET m == mt[t]
    IN  /\ m.pc = "get_load"
        /\ Go(t, Ret([m EXCEPT !.val = arr[m.lvl][m.b][m.d].v[m.j]]))
        /\ UNCHANGED <<hash_builder, table, resizer, markers, arr, items>>

\* self.next.load
GetNext(t) ==
    LET m == mt[t]
    IN  /\ m.pc = "get_next"
        /\ Go(t, IF Len(arr[m.lvl][m.b]) > m.d
                 THEN [m EXCEPT !.pc = "get_slot", !.d = m.d + 1, !.j = 1]
                 ELSE Ret(m))
        /\ UNCHANGED <<hash_builder, table, resizer, markers, arr, items>>

MapNext ==
    \E t \in Threads :
        \/ \E k \in Keys : InsertCall(t, k)
        \/ InsItemsLoad(t)
        \/ VbSlot(t)
        \/ VbEntry(t)
        \/ VbStore(t)
        \/ VbNext(t)
        \/ VbNextCas(t)
        \/ InsItems(t)
        \/ InsResizer(t)
        \/ InsNewResizer(t)
        \/ UpdItems(t)
        \/ Mark(t)
        \/ CopySlot(t)
        \/ CopySub(t)
        \/ CopyDone(t)
        \/ Check(t)
        \/ Install(t)
        \/ \E k \in Keys : RemoveCall(t, k)
        \/ RmSlot(t)
        \/ RmStore(t)
        \/ RmNext(t)
        \/ RemResizer(t)
        \/ \E k \in Keys : GetCall(t, k)
        \/ GetSlot(t)
        \/ GetLoad(t)
        \/ GetNext(t)

\* ------------------------------------------------- a well-behaved client
\* Threads that load from a cell and drop the handle before their next call:
\* no thread owns more than one handle, nothing is leaked, and nothing bounds
\* the number of calls.
\* a = Arc::new(_); c = AtomicArc::new(a) or new_nullable(Some(a)), per cell
CellAddr(c) == IF c = 1 THEN 16 ELSE 256
WellInit ==
    /\ counts = [a \in Addrs |-> 1]
    /\ istate = [a \in Addrs |-> "live"]
    /\ frees = [a \in Addrs |-> 0]
    /\ cell = [c \in Cells |-> Pack(CellAddr(c))]
    /\ cstate = [c \in Cells |-> "live"]
    /\ held = [t \in Threads |-> [a \in HandleAddrs |-> 0]]
    /\ pc = [t \in Threads |-> "idle"]
    /\ loc = [t \in Threads |-> NoLoc]
    /\ last = NoLast
    /\ src = [c \in Cells |-> [kind |-> "new", addr |-> CellAddr(c)]]
    /\ aborted = FALSE
    /\ ub = FALSE
    /\ calls = 0

\* let arc = c.load();
WellLoad(t, c) ==
    /\ Running /\ pc[t] = "idle"
    /\ HeldTotal(t) = 0
    /\ load(t, c)
    /\ UNCHANGED calls
    /\ UNCHANGED mapVars

\* drop(arc);
WellDrop(t, a) ==
    /\ Running /\ pc[t] = "idle"
    /\ held[t][a] > 0
    /\ drop_arc(a)
    /\ held' = Take(t, a)
    /\ last' = [NoLast EXCEPT !.t = t, !.op = "drop", !.got = a]
    /\ UNCHANGED <<cell, cstate, pc, loc, src>>
    /\ UNCHANGED calls
    /\ UNCHANGED mapVars

WellNext ==
    \E t \in Threads :
        \/ \E c \in Cells : WellLoad(t, c)
        \/ \E a \in Addrs : WellDrop(t, a)

vars == <<arcVars, mapVars>>
\* the program before its first call, with the caller's hasher s: the
\* default one where no map is shared
Init == \E s \in {[k \in Keys |-> k - 1]} : ArcInit /\ MapFresh /\ hash_builder = s
InitMap == \E s \in Hashers : ArcInit /\ MapInit /\ hash_builder = s
\* threads that make every call of the two types
Spec == Init /\ [][ArcNext]_vars
\* threads that never call compare_exchange
SpecCells == Init /\ [][CellsNext]_vars
\* threads that share one HashMap
SpecMap == InitMap /\ [][MapNext]_vars

\* The steps of a call that is under way.  The threads are parallel and
\* nothing suspends them: a thread inside a call keeps taking its steps,
\* while nothing obliges a client to start a call.
MapStep(t) ==
    \/ InsItemsLoad(t) \/ VbSlot(t) \/ VbEntry(t) \/ VbStore(t) \/ VbNext(t)
    \/ VbNextCas(t) \/ InsItems(t) \/ InsResizer(t) \/ InsNewResizer(t)
    \/ UpdItems(t) \/ Mark(t) \/ CopySlot(t) \/ CopySub(t) \/ CopyDone(t)
    \/ Check(t) \/ Install(t) \/ RmSlot(t) \/ RmStore(t) \/ RmNext(t)
    \/ RemResizer(t) \/ GetSlot(t) \/ GetLoad(t) \/ GetNext(t)
\* the map after insert(1, _) and insert(2, _), with the hasher that spreads
\* the keys
InitResize == \E s \in {[k \in Keys |-> k - 1]} : ArcInit /\ MapTwoKeys /\ hash_builder = s
SpecMapFair == InitResize /\ [][MapNext]_vars /\ \A t \in Threads : WF_vars(MapStep(t))
\* threads that load from two cells and drop what they loaded
\* Inner::release on its own: an Inner with any counts word a live Inner can
\* hold (an Inner that no cell points at is owned through handles), and
\* releases of any pair the safety contract of release admits
ReleaseInit ==
    /\ \E w \in 1 .. CountsMod - 1 :
          /\ StrongOf(w) > 0 \/ BasicOf(w) > 0
          /\ counts = [a \in Addrs |-> IF a = CellAddr(1) THEN w ELSE 0]
    /\ istate = [a \in Addrs |-> IF a = CellAddr(1) THEN "live" ELSE "unalloc"]
    /\ frees = [a \in Addrs |-> 0]
    /\ cell = [c \in Cells |-> 0]
    /\ cstate = [c \in Cells |-> "none"]
    /\ held = [t \in Threads |-> [a \in HandleAddrs |-> 0]]
    /\ pc = [t \in Threads |-> "idle"]
    /\ loc = [t \in Threads |-> NoLoc]
    /\ last = NoLast
    /\ src = [c \in Cells |-> [kind |-> "none", addr |-> 0]]
    /\ aborted = FALSE
    /\ ub = FALSE
    /\ calls = 0
BasicDeltas == (-MaxDelta .. MaxDelta) \cup {MIN_BASIC_COUNT, MAX_BASIC_COUNT}
\* Inner::release(inner, basic, strong)
ReleaseApply(a, basic, strong) ==
    /\ Running
    /\ istate[a] = "live"
    /\ strong <= StrongOf(counts[a])
    /\ release(a, basic, strong)
    /\ last' = [NoLast EXCEPT !.op = "release", !.c = a, !.got = basic, !.want = strong]
    /\ UNCHANGED <<cell, cstate, held, pc, loc, src, calls>>
    /\ UNCHANGED mapVars
ReleaseNext ==
    \E a \in Addrs, basic \in BasicDeltas, strong \in 0 .. MaxDelta :
        ReleaseApply(a, basic, strong)
InitRelease == \E s \in {[k \in Keys |-> k - 1]} : ReleaseInit /\ MapFresh /\ hash_builder = s
SpecRelease == InitRelease /\ [][ReleaseNext]_vars

InitWell == \E s \in {[k \in Keys |-> k - 1]} : WellInit /\ MapFresh /\ hash_builder = s
SpecWell == InitWell /\ [][WellNext]_vars
\* ------------------------------------------------------------------ claims
CellPointsAt(c, a) == cstate[c] \in {"init", "live"} /\ PtrOf(cell[c]) = a
HandleAlive(a) == \E t \in Threads : held[t][a] > 0

Freed(a) == istate[a] = "live" /\ istate'[a] = "freed"

\* C1: an Inner is never deallocated while an owned handle to it is alive or
\* an atomic cell still points at it: the step that frees it leaves no handle
\* to it and no cell whose pointer field designates it.
C1_NoPrematureFree ==
    [][\A a \in Addrs :
          Freed(a) =>
              /\ \A t \in Threads : held'[t][a] = 0
              /\ \A c \in Cells : ~CellPointsAt(c, a)']_vars
AllIdle == \A t \in Threads : pc[t] \in {"idle", "panicked"}

\* C2: once every owned handle to an Inner has been dropped and no cell
\* points at it any more, with no call under way, the Inner has been
\* deallocated, and exactly once.
C2_ExactlyOnceFree ==
    \A a \in Addrs :
        ( /\ istate[a] # "unalloc"
          /\ AllIdle
          /\ ~HandleAlive(a)
          /\ ~\E c \in Cells : CellPointsAt(c, a) )
        => istate[a] = "freed" /\ frees[a] = 1

\* C3: a load that observes the word written by construct(H) or store(H)
\* returns a handle to H's Inner (null for null): the pointer field of such
\* a word designates H's address again; and the handles loaded before a
\* store stay handles to a live Inner.
C3_LoadSeesStored ==
    /\ \A c \in Cells :
           (cstate[c] = "live" /\ src[c].kind \in {"new", "store"})
               => PtrOf(cell[c]) = src[c].addr
    /\ (last.op = "load" /\ last.kind \in {"new", "store"}) => last.got = last.want
    /\ ~ub => \A t \in Threads, a \in HandleAddrs : held[t][a] > 0 => Live(a)

\* a load has returned the non-null Arc a store put into the cell, while a
\* handle loaded before that store is still held
C3_Witness ==
    /\ last.op = "load" /\ last.kind = "store"
    /\ last.got # 0 /\ last.got = last.want
    /\ \E t \in Threads, a \in Addrs : a # last.got /\ held[t][a] > 0 /\ Live(a)

\* C4: compare_exchange returns true iff the cell's pointer field equals
\* current's address at the CAS point, and after a true the cell's loads
\* return a handle to new's Inner until the next store, swap or
\* compare_exchange.
C4_CompareExchange ==
    /\ \A t \in Threads :
           /\ pc[t] = "ce_release" => PtrOf(loc[t].old) = loc[t].cur
           /\ (pc[t] = "ce_drop" /\ ~loc[t].ret) => PtrOf(loc[t].old) # loc[t].cur
    /\ \A c \in Cells :
           (cstate[c] = "live" /\ src[c].kind = "cas") => PtrOf(cell[c]) = src[c].addr
    /\ (last.op = "load" /\ last.kind = "cas") => last.got = last.want
\* the steps thread t takes inside a compare_exchange that returns false
CeFalseStep(t) ==
    \/ pc[t] = "idle" /\ pc'[t] = "ce_load"
    \/ pc[t] = "ce_load" /\ pc'[t] = "ce_loop"
    \/ pc[t] = "ce_loop" /\ pc'[t] = "ce_loop" /\ loc'[t] # loc[t]
    \/ pc[t] = "ce_loop" /\ pc'[t] = "ce_drop"
    \/ pc[t] = "ce_drop" /\ ~loc[t].ret /\ pc'[t] = "idle"

\* C5: a compare_exchange that returns false leaves the cell's word as it
\* is; its strong_release takes from the counts of new's Inner exactly the
\* one strong count its strong_acquire added (one less strong, the same
\* basic, whenever a strong count is there to take); and the drop of `new`
\* that ends it frees that Inner when `new` was its last reference.
C5_FailedCompareExchange ==
    [][\A t \in Threads :
          /\ CeFalseStep(t) => cell' = cell
          /\ (pc[t] = "ce_loop" /\ pc'[t] = "ce_drop" /\ loc[t].new # 0 /\ ~ub') =>
                 /\ ~loc'[t].ret
                 /\ counts'[loc[t].new] = (counts[loc[t].new] - 1) % CountsMod
                 /\ StrongOf(counts[loc[t].new]) >= 1 =>
                        /\ StrongOf(counts'[loc[t].new]) = StrongOf(counts[loc[t].new]) - 1
                        /\ BasicOf(counts'[loc[t].new]) = BasicOf(counts[loc[t].new])
          /\ (pc[t] = "ce_drop" /\ ~loc[t].ret /\ pc'[t] = "idle"
                 /\ loc[t].new # 0 /\ ~ub' /\ counts[loc[t].new] = CountField) =>
                 istate'[loc[t].new] = "freed"]_vars

\* a compare_exchange has returned false, the cell's word is what it was,
\* and new's Inner, to which `new` was the last handle, is freed
C5_Witness ==
    /\ last.op = "ce" /\ ~last.ret
    /\ last.want # 0 /\ istate[last.want] = "freed" /\ frees[last.want] = 1
    /\ cstate[last.c] = "live" /\ PtrOf(cell[last.c]) # last.got
\* ------------------------------------------------------ claims on the map
\* VirtualBucket::get on a chain that nobody writes
RECURSIVE ChainGet(_, _, _, _)
ChainGet(chain, d, h, k) ==
    IF d > Len(chain) THEN 0
    ELSE LET hits == {j \in 1 .. N : GetMatch(chain[d], j, h, k)}
         IN  IF hits # {} THEN chain[d].v[CHOOSE j \in hits : \A i \in hits : j <= i]
             ELSE ChainGet(chain, d + 1, h, k)
\* HashMap::get on a map that nobody writes
MapGet(k) == ChainGet(arr[table][hash_into(table, hash(k))], 1, hash(k), k)

MapBusy(t) == mt[t].pc \notin {"idle", "panicked"}
MapQuiet == \A t \in Threads : ~MapBusy(t)
NoPanic == \A t \in Threads : mt[t].pc # "panicked"
\* the owners of the Buckets of level l: the map's cell and the handles the
\* running calls loaded from it; and of the bucket array of level l: its
\* Buckets and the Resizer of the level below
BucketsHeld(l) == table = l \/ \E t \in Threads : MapBusy(t) /\ mt[t].tbl = l
ArrayOwned(l) == BucketsHeld(l) \/ (l > 0 /\ resizer[l - 1] # 0 /\ BucketsHeld(l - 1))
\* the slots of k's chain in the current table that hold k
SlotsOf(k) ==
    LET chain == arr[table][hash_into(table, hash(k))]
    IN  {<<d, j>> \in (1 .. Len(chain)) \X (1 .. N) :
            chain[d].h[j] = hash(k) /\ chain[d].k[j] = k}
\* k was inserted once, by a call that returned, and never removed
Once(k) == done[k].kind = "insert" /\ done[k].n = 1 /\ ~done[k].rm

\* C6: last insert wins: a get(K) that starts after insert(K, V2) returned,
\* with no other write to K concurrent with either or later, returns V2,
\* whatever the other threads do to other keys.
C6_LastInsertWins ==
    (mlast.op = "get" /\ mlast.exp = "insert") => mlast.got = mlast.expv

\* C7: a get(K) that starts after remove(K) returned, with no other write to
\* K concurrent with either or later, returns null, whatever the other
\* threads do to other keys and whichever table it reads.
C7_RemovedStaysRemoved ==
    (mlast.op = "get" /\ mlast.exp = "remove") => mlast.got = 0

\* C8: get(K) returns null or a value that an insert(K, _) supplied for K,
\* never the value of another key; and the bucket array and the entry a get
\* reads are still owned, not dropped, at every step of it.
C8_GetReturnsOwnKey ==
    /\ (mlast.op = "get" /\ mlast.got # 0) =>
           /\ KeyOfVal(mlast.got) = mlast.key
           /\ mlast.got \in {Val(mlast.key, i) : i \in 1 .. done[mlast.key].n}
    /\ \A t \in Threads :
           (MapBusy(t) /\ mt[t].op = "get") =>
               /\ ArrayOwned(mt[t].lvl)
               /\ mt[t].lvl = mt[t].tbl
               /\ mt[t].pc = "get_load" =>
                      arr[mt[t].lvl][mt[t].b][mt[t].d].k[mt[t].j] = mt[t].key

\* a get has returned K's value out of a chain that also holds another key
\* with K's hash, while the other thread is inside a write
C8_Witness ==
    /\ mlast.op = "get" /\ mlast.got # 0
    /\ \E k \in Keys \ {mlast.key} : hash(k) = hash(mlast.key) /\ SlotsOf(k) # {}
    /\ \E t \in Threads : MapBusy(t) /\ mt[t].op \in {"insert", "remove"}

\* C9: inserts of pairwise distinct keys on a map that started with one
\* bucket: once all of them have returned, get finds every inserted key with
\* its value.
C9_DistinctInsertsRetrievable ==
    (MapQuiet /\ NoPanic /\ \A k \in Keys : ~done[k].rm /\ done[k].n <= 1) =>
        \A k \in Keys : done[k].n = 1 => MapGet(k) = Val(k, 1)

\* C10: two distinct keys with the same hash (0 counts as 1), each inserted
\* once: with no call under way both sit in slots of the same chain of the
\* table, and get returns each one's own value.
C10_CollidingKeys ==
    \A k1, k2 \in Keys :
        (k1 # k2 /\ hash(k1) = hash(k2) /\ Once(k1) /\ Once(k2) /\ MapQuiet) =>
            /\ SlotsOf(k1) # {} /\ SlotsOf(k2) # {} /\ SlotsOf(k1) # SlotsOf(k2)
            /\ MapGet(k1) = Val(k1, 1) /\ MapGet(k2) = Val(k2, 1)
\* C11: inserts of pairwise distinct keys and no remove: once every insert
\* has returned, `items` is the number of keys inserted, whatever resizes
\* the inserts went through.
Inserted == {k \in Keys : done[k].n = 1}
C11_ItemsCount ==
    (MapQuiet /\ NoPanic /\ \A k \in Keys : ~done[k].rm /\ done[k].n <= 1) =>
        items = Cardinality(Inserted)
\* three keys went in and the table has been swapped on the way
C11_Witness ==
    /\ MapQuiet /\ NoPanic /\ \A k \in Keys : ~done[k].rm /\ done[k].n <= 1
    /\ Cardinality(Inserted) >= 3 /\ table > 0
\* C12: an insert that finds every slot taken and is not told to resize makes
\* sure `next` exists and goes on in it: the step that follows next.load
\* returning null, the installing compare_exchange included, descends into
\* the overflow bucket; it never panics.
C12_OverflowInsert ==
    [][\A t \in Threads :
         (mt[t].pc = "vb_next_cas" /\ mt'[t].pc # "vb_next_cas") =>
             (mt'[t].pc = "vb_slot" /\ mt'[t].d = mt[t].d + 1)]_vars
\* C13: a load aborts the process exactly when the outer count it finds in
\* the cell word, before its own increment, is the largest the field holds
\* (2^20 - 1 in the code's 20 bits), and at no smaller count.
C13_LoadAbortThreshold ==
    [][\A c \in Cells :
         cell'[c] # cell[c] =>
             (aborted' <=> OuterOf(cell[c]) = Pow2(OuterBits) - 1)]_vars

\* C14: in a run where every loaded handle is dropped before the thread's
\* next call, no load aborts the process, however many loads are made.
C14_NoAbortWhenWellBehaved == ~aborted
\* C15: in every virtual bucket, top-level or overflow, a slot with an entry
\* has a non-zero hash, the hash of the entry's key; a hash, once non-zero,
\* and an entry, once non-null, never change.
SlotOK(vb, j) == vb.k[j] # 0 => (vb.h[j] # 0 /\ vb.h[j] = hash(vb.k[j]))
SlotsOK ==
    \A l \in Levels : \A b \in 0 .. BucketsLen(l) - 1 : \A d \in 1 .. Len(arr[l][b]) :
        \A j \in 1 .. N : SlotOK(arr[l][b][d], j)
C15_SlotInvariant ==
    [][/\ SlotsOK /\ SlotsOK'
       /\ \A l \in Levels : \A b \in 0 .. BucketsLen(l) - 1 : \A d \in 1 .. Len(arr[l][b]) :
              \A j \in 1 .. N :
                  /\ arr[l][b][d].h[j] # 0 => arr'[l][b][d].h[j] = arr[l][b][d].h[j]
                  /\ arr[l][b][d].k[j] # 0 => arr'[l][b][d].k[j] = arr[l][b][d].k[j]]_vars
\* an insert has moved on from a slot that another key with its hash holds,
\* while the other thread has claimed a slot's hash and not yet published
\* its entry
C15_Witness ==
    /\ \E t \in Threads : LET m == mt[t] IN
           /\ m.pc = "vb_slot" /\ m.j = 2
           /\ arr[m.lvl][m.b][m.d].k[1] \notin {0, m.ik}
           /\ arr[m.lvl][m.b][m.d].h[1] = m.ih
    /\ \E l \in Levels : \E b \in 0 .. BucketsLen(l) - 1 : \E j \in 1 .. N :
           arr[l][b][1].h[j] # 0 /\ arr[l][b][1].k[j] = 0
\* C16: in the chain behind any top-level virtual bucket, at most one slot
\* with an entry holds a given key, also while threads insert the same key,
\* or keys with the same hash, at once.
HoldersOf(chain, k) ==
    {<<d, j>> \in (1 .. Len(chain)) \X (1 .. N) : chain[d].k[j] = k}
C16_KeyUnique ==
    \A l \in Levels : \A b \in 0 .. BucketsLen(l) - 1 : \A k \in Keys :
        Cardinality(HoldersOf(arr[l][b], k)) <= 1
\* an insert of a key has returned while another insert of the same key is
\* under way, and the key shares its chain with another key of its hash
C16_Witness ==
    /\ mlast.op = "insert" /\ SlotsOf(mlast.key) # {}
    /\ \E t \in Threads : MapBusy(t) /\ mt[t].op = "insert" /\ mt[t].key = mlast.key
    /\ \E k \in Keys \ {mlast.key} : hash(k) = hash(mlast.key) /\ SlotsOf(k) # {}
\* a thread inside copy_chunk_to, or about to subtract what it returned and
\* store the marker
InCopy(m) ==
    \/ m.pc \in {"copy_slot", "copy_sub", "copy_done"}
    \/ m.pc \in {"vb_slot", "vb_entry", "vb_store", "vb_next", "vb_next_cas"} /\ m.ctx = "copy"
Copiers(l, c) == {t \in Threads : InCopy(mt[t]) /\ mt[t].tbl = l /\ mt[t].c = c}

\* C17: a marker only moves 0 -> 1 -> 2; a chunk is copied by the one thread
\* whose compare_exchange(0, 1) succeeded, starting at the chunk's first
\* bucket and going through the slots in order; and the marker becomes 2
\* only by that thread, after the last slot of the chunk's last bucket.
C17_MarkerProtocol ==
    [][/\ \A l \in Levels : \A c \in 0 .. Chunks(l) - 1 :
              /\ markers'[l][c] \in {markers[l][c], markers[l][c] + 1} /\ markers'[l][c] <= 2
              /\ Cardinality(Copiers(l, c)) <= 1
              /\ Copiers(l, c) # {} => markers[l][c] = 1
              /\ Copiers(l, c)' \ Copiers(l, c) # {} => (markers[l][c] = 0 /\ markers'[l][c] = 1)
              /\ (markers[l][c] = 1 /\ markers'[l][c] = 2) =>
                     \E t \in Copiers(l, c) : mt[t].pc = "copy_done" /\ ~InCopy(mt'[t])
       /\ \A t \in Threads : LET m == mt[t]  n == mt'[t] IN
              /\ (~InCopy(m) /\ InCopy(n)) =>
                     (n.pc = "copy_slot" /\ n.cb = Lower(n.c) /\ n.cs = 1)
              /\ (InCopy(m) /\ n.pc = "copy_slot" /\ <<n.cb, n.cs>> # <<m.cb, m.cs>>) =>
                     \/ n.cb = m.cb /\ n.cs = m.cs + 1
                     \/ n.cb = m.cb + 1 /\ n.cs = 1 /\ m.cs = N
              /\ (InCopy(m) /\ m.pc # "copy_sub" /\ n.pc = "copy_sub") =>
                     (m.cb = Upper(m.tbl, m.c) - 1 /\ m.cs = N)]_vars
\* one thread is copying a chunk of a table of two chunks, the other has
\* been refused that chunk's marker and has claimed or finished the other
C17_Witness ==
    \E l \in Levels : \E c1, c2 \in 0 .. Chunks(l) - 1 : \E t \in Threads :
        /\ c1 # c2 /\ Copiers(l, c1) # {} /\ t \notin Copiers(l, c1)
        /\ mt[t].tbl = l /\ mt[t].c > c1 /\ markers[l][c2] \in {1, 2}
\* C18: the map's table is only ever replaced by the Buckets made of the
\* destination array of the replaced table's resizer, which has no resizer
\* of its own, at a moment when every marker of that resizer is 2; and a
\* table is replaced at most once: the install of a thread whose table was
\* already replaced changes nothing.
C18_InstallGating ==
    [][/\ table' # table =>
              /\ table' = table + 1
              /\ resizer[table] # 0
              /\ \A c \in 0 .. Chunks(table) - 1 : markers[table][c] = 2
              /\ resizer'[table'] = 0
              /\ \E t \in Threads : mt[t].pc = "install" /\ mt[t].tbl = table /\ mt'[t].pc # "install"
       /\ \A t \in Threads :
              (mt[t].pc = "install" /\ mt'[t].pc # "install" /\ mt[t].tbl # table) =>
                  table' = table]_vars
\* two threads found every marker 2; one has replaced the table and the
\* other is about to try with the table that was replaced
C18_Witness ==
    \E t \in Threads : mt[t].pc = "install" /\ mt[t].tbl < table
\* C19: the resizer cell of a Buckets changes at most once, from None to a
\* Resizer whose buckets are twice the table's, all empty, with one marker
\* per CHUNK_SIZE buckets of the table, rounded up, all 0; and every thread
\* on the pending-update path of a table works on the Resizer the table's
\* cell holds, the threads that got ResizeNeeded together included.
C19_OneResizer ==
    [][/\ \A l \in Levels :
              resizer'[l] # resizer[l] =>
                  /\ resizer[l] = 0 /\ l < MaxLevel
                  /\ DOMAIN arr[l + 1] = 0 .. 2 * BucketsLen(l) - 1
                  /\ \A b \in DOMAIN arr[l + 1] : arr[l + 1][b] = <<EmptyBucket>>
                  /\ \A c \in DOMAIN markers[l] : markers[l][c] = 0
                  /\ Cardinality(DOMAIN markers[l]) * CHUNK_SIZE >= BucketsLen(l)
                  /\ (Cardinality(DOMAIN markers[l]) - 1) * CHUNK_SIZE < BucketsLen(l)
       /\ \A t \in Threads :
              mt'[t].rz # 0 => mt'[t].rz = resizer'[mt'[t].tbl]]_vars
\* both threads got ResizeNeeded on the same table; one installed its
\* Resizer and the other, whose try_store failed, works on that one
C19_Witness ==
    \E t, u \in Threads :
        /\ t # u /\ mt[t].tbl = mt[u].tbl /\ mt[t].rz = u /\ mt[u].rz = u
        /\ mt[t].upd = "Insert" /\ mt[u].upd = "Insert"
\* C20: at the moment a new table is installed, every key that get finds
\* with a live value in the old table, in a top-level bucket or in an
\* overflow bucket behind it, and that no call is writing at that moment, is
\* found by get with a live value in the new table.
TableGet(l, k) == ChainGet(arr[l][hash_into(l, hash(k))], 1, hash(k), k)
C20_ResizePreserves ==
    [][table' # table =>
           \A k \in Keys :
               (TableGet(table, k) # 0 /\ \A t \in Threads : ~Writing(t, k)) =>
                   TableGet(table', k) # 0]_vars
\* C21: a stale writer is not lost.  An insert(K, V) that loaded table T and
\* found T superseded before it wrote into T's bucket, and that overlapped no
\* other write to K, leaves K -> V in the current table when it returns.
\* (stale is the ghost set when the call enters VirtualBucket::insert: the
\* table pointer no longer designates the array the call loaded.)
StaleReturn(t) ==
    /\ mt[t].op = "insert" /\ mt[t].stale /\ mt[t].clean
    /\ mt[t].pc \notin {"idle", "panicked"}
    /\ mt'[t].pc = "idle"
C21_StaleWriterNotLost ==
    [][\A t \in Threads :
          StaleReturn(t) =>
              ChainGet(arr'[table'][hash_into(table', hash(mt[t].key))], 1,
                       hash(mt[t].key), mt[t].key) = mt[t].val]_vars

\* C22: reference-count conservation.  In every state in which no thread is
\* inside a cell operation, every Inner that is not freed has a strong count
\* equal to the number of cells whose pointer field designates it, and its
\* basic count plus the outer counts of those cells equals the number of
\* handles the threads own to it.
CellsAt(a) == {c \in Cells : cstate[c] = "live" /\ PtrOf(cell[c]) = a}
OuterSum(a) ==
    LET RECURSIVE Sum(_)
        Sum(S) == IF S = {} THEN 0
                  ELSE LET c == CHOOSE x \in S : TRUE IN OuterOf(cell[c]) + Sum(S \ {c})
    IN Sum(CellsAt(a))
HandlesTo(a) ==
    LET RECURSIVE Sum(_)
        Sum(S) == IF S = {} THEN 0
                  ELSE LET t == CHOOSE x \in S : TRUE IN held[t][a] + Sum(S \ {t})
    IN Sum(Threads)
C22_CountConservation ==
    (Running /\ \A t \in Threads : pc[t] = "idle") =>
        \A a \in Addrs :
            istate[a] = "live" =>
                /\ StrongOf(counts[a]) = Cardinality(CellsAt(a))
                /\ BasicOf(counts[a]) + OuterSum(a) = HandlesTo(a)

\* C23: resize completes without waiting.  Once the current table has a
\* resizer and every thread inside a call keeps running, the table is
\* eventually replaced.
C23_ResizeCompletes ==
    \A l \in Levels : (table = l /\ resizer[l] # 0) ~> (table # l)

NoUndefined == ~ub /\ ~aborted
====
